---- MODULE Spec2Model ----
(***************************************************************************)
(* Model of the CineForge video composer (src/components/VideoComposer.tsx *)
(* and the page that hosts it): the asset list and its decode effect, the  *)
(* memoised total duration, the frame renderer drawFrame with the 2D       *)
(* context state it reads and leaves behind, the preview frame callback    *)
(* with its origin and its closure, the features textarea, the generate    *)
(* button, and the capture driver startRecording with the host's           *)
(* MediaRecorder.                                                          *)
(*                                                                         *)
(* Times are integer milliseconds.  Alpha values are integers in           *)
(* thousandths (AlphaOne = 1.0).                                           *)
(***************************************************************************)
EXTENDS Integers, Sequences, FiniteSets, TLC

VARIABLES
    assets,           \* Page state `assets`: the File list (each File by its .type)
    loaders,          \* decode effects in flight: [files, cancelled]
    bitmaps,          \* component state `bitmaps`
    totalDurationMs,  \* the useMemo value
    style,            \* prop `style`
    ctx,              \* the canvas 2D context state that survives a call
    frame,            \* the last drawFrame call and what it painted
    previewPending,   \* the preview callback that rafRef.current names is pending
    host,             \* the host's MediaRecorder capability
    audioFile,        \* Page state `audioFile` (TRUE: a file is set)
    rec,              \* the capture (one startRecording invocation)
    features,         \* Page state `features`: the caption lines
    loopFeatures,     \* `features` in the closure of the running preview loop
    handleFeatures,   \* `features` in the closure of the imperative handle
    previewStartRef,  \* previewStartRef.current: "null" or "set"
    loopFirst,        \* the running preview loop has had no callback yet
    isRecording,      \* Page state `isRecording`
    stalePending,     \* pending preview callbacks that rafRef.current does not name
    mounted           \* the view is mounted

vars == <<assets, loaders, bitmaps, totalDurationMs, style, ctx, frame,
          previewPending, host, audioFile, rec, features, loopFeatures,
          handleFeatures, previewStartRef, loopFirst, isRecording,
          stalePending, mounted>>

(***************************************************************************)
(* Bounds of the model.                                                    *)
(***************************************************************************)
MaxFiles == 3
MaxInFlight == 2
MaxFrames == 2
DriverFiles == 2
DriverInFlight == 1
TextFiles == 1
StudioFiles == 1
LifecycleFiles == 1

(***************************************************************************)
(* Program constants.                                                      *)
(***************************************************************************)
introMs == 1500
perImageMs == 3200
priceMs == 1800
outroMs == 800
AlphaOne == 1000

Min(a, b) == IF a < b THEN a ELSE b
Max(a, b) == IF a > b THEN a ELSE b

FileTypes == {"image/png", "text/plain"}
Styles == {"cinematic", "modern", "minimal"}

FileLists(n) == UNION {[1..k -> FileTypes] : k \in 1..n}

IsImage(f) == f = "image/png"

(***************************************************************************)
(* The caption lines.  A text is a sequence of pieces: a piece is a run of *)
(* characters holding neither a line break nor "|", or one of those two.   *)
(* The page's textarea handler splits its text at line breaks and drops    *)
(* the empty lines; the effects' dependency lists hold features.join("|"). *)
(***************************************************************************)
DefaultFeatures ==
    <<<<"Premium anodized aluminum">>, <<"Adaptive ambient glow">>,
      <<"12h battery life">>>>

\* the texts typed into the textarea: none, one line, one line holding
\* "|", two lines, one line between empty lines
Texts ==
    {<<>>, <<"a">>, <<"a", "|", "b">>, <<"a", "\n", "b">>, <<"\n", "a", "\n">>}

RECURSIVE SplitFrom(_, _, _, _)
SplitFrom(text, i, line, lines) ==
    IF i > Len(text) THEN Append(lines, line)
    ELSE IF text[i] = "\n" THEN SplitFrom(text, i + 1, <<>>, Append(lines, line))
    ELSE SplitFrom(text, i + 1, Append(line, text[i]), lines)

\* text.split("\n")
SplitLines(text) == SplitFrom(text, 1, <<>>, <<>>)

Truthy(line) == line # <<>>

\* lines.filter(Boolean)
FilterBoolean(lines) == SelectSeq(lines, Truthy)

RECURSIVE JoinFrom(_, _, _)
JoinFrom(lines, sep, i) ==
    IF i > Len(lines) THEN <<>>
    ELSE IF i = Len(lines) THEN lines[i]
    ELSE lines[i] \o <<sep>> \o JoinFrom(lines, sep, i + 1)

\* lines.join(sep)
Join(lines, sep) == JoinFrom(lines, sep, 1)

\* the dependency features.join("|") of the preview effect and of the handle
FeaturesDep(lines) == Join(lines, "|")

(***************************************************************************)
(* totalDurationMs: the body of the useMemo callback, and the memo itself, *)
(* which React recomputes only when bitmaps.length changes.                *)
(***************************************************************************)
\* the memo callback with n taken from the decoded bitmaps alone
ComputeTotalBitmapsOnly(nBitmaps, nAssets) ==
    IF nBitmaps = 0 THEN introMs
    ELSE introMs + nBitmaps * perImageMs + priceMs + outroMs

ComputeTotal(nBitmaps, nAssets) ==
    LET n == Max(nBitmaps, nAssets)
    IN  IF n = 0 THEN introMs
        ELSE introMs + n * perImageMs + priceMs + outroMs

MemoTotal(oldBitmaps, newBitmaps, newAssets, oldTotal) ==
    IF Len(newBitmaps) # Len(oldBitmaps)
    THEN ComputeTotal(Len(newBitmaps), Len(newAssets))
    ELSE oldTotal

(***************************************************************************)
(* The decode effect's loop over one file list.  `fails` is the set of     *)
(* positions whose createImageBitmap (or fetch) rejects.                   *)
(***************************************************************************)
RECURSIVE DecodeFrom(_, _, _, _)
DecodeFrom(files, fails, i, imgs) ==
    IF i > Len(files) THEN imgs
    ELSE IF ~IsImage(files[i]) THEN DecodeFrom(files, fails, i + 1, imgs)
    ELSE IF i \in fails THEN DecodeFrom(files, fails, i + 1, imgs)
    ELSE DecodeFrom(files, fails, i + 1, Append(imgs, "bmp"))

DecodeAll(files, fails) == DecodeFrom(files, fails, 1, <<>>)

(***************************************************************************)
(* drawFrame: the scene list it builds on every call.                      *)
(***************************************************************************)
RECURSIVE ImageScenes(_, _, _)
ImageScenes(i, n, cursor) ==
    IF i >= n THEN <<>>
    ELSE <<[kind |-> "image", idx |-> i, start |-> cursor,
            end |-> cursor + perImageMs]>>
         \o ImageScenes(i + 1, n, cursor + perImageMs)

BuildScenes(n) ==
    LET afterImages == introMs + n * perImageMs
    \* idx is meaningful for image scenes only (the code leaves it undefined)
    IN  <<[kind |-> "intro", idx |-> 0, start |-> 0, end |-> introMs]>>
        \o ImageScenes(0, n, introMs)
        \o <<[kind |-> "price", idx |-> 0, start |-> afterImages,
              end |-> afterImages + priceMs]>>
        \o <<[kind |-> "outro", idx |-> 0, start |-> afterImages + priceMs,
              end |-> afterImages + priceMs + outroMs]>>

ClampTime(tMs, total) == Min(tMs, total - 1)

\* scenes.find(s => time >= s.start && time < s.end): the matching positions
Matches(scenes, time) ==
    {k \in 1..Len(scenes) : time >= scenes[k].start /\ time < scenes[k].end}

FirstMatch(scenes, time) ==
    CHOOSE k \in Matches(scenes, time) : \A j \in Matches(scenes, time) : k <= j

\* prog = local / (scene.end - scene.start), in thousandths
Progress(scene, time) ==
    ((time - scene.start) * AlphaOne) \div (scene.end - scene.start)

\* Math.min(1, prog * 1.5)
Fade(prog) == Min(AlphaOne, (prog * 3) \div 2)

Op(name, c, amount) ==
    [op |-> name, alpha |-> c.globalAlpha, filter |-> c.filter, amount |-> amount]

WithAlpha(c, a) == [c EXCEPT !.globalAlpha = a]

\* the colour grade set at line 90
GradeFilter(sty) == IF sty = "minimal" THEN "none" ELSE "grade"

(***************************************************************************)
(* The four scene painters.  Each returns the operations it paints and    *)
(* the context state it leaves.                                            *)
(***************************************************************************)
DrawIntro(c, hasBmp, prog) ==
    LET c1 == IF hasBmp THEN WithAlpha(c, AlphaOne) ELSE c
        img == IF hasBmp
               THEN <<Op("intro.image", WithAlpha(c, (AlphaOne * 9) \div 10), prog),
                      Op("intro.overlay", c1, 0)>>
               ELSE <<>>
    IN  [ops |-> img \o <<Op("intro.title", c1, Fade(prog)),
                         Op("intro.subtitle",
                            WithAlpha(c1, (AlphaOne * 9) \div 10), Fade(prog))>>,
         ctx |-> WithAlpha(c1, AlphaOne)]

DrawImageScene(c, hasBmp, hasCaption, index, prog) ==
    LET c1 == IF hasBmp THEN WithAlpha(c, AlphaOne) ELSE c
        img == IF hasBmp
               THEN <<Op("image.bitmap", c1, prog), Op("image.gradient", c1, 0)>>
               ELSE <<>>
        cap == IF hasCaption THEN <<Op("image.caption", c1, index)>> ELSE <<>>
    IN  [ops |-> img \o cap, ctx |-> c1]

DrawPrice(c, prog) ==
    LET fade == Fade(prog)
        c1 == WithAlpha(c, (fade * 9) \div 10)
        c2 == WithAlpha(c, fade)
    IN  [ops |-> <<Op("price.background", c, 0), Op("price.text", c1, 0),
                   Op("price.pill", c2, 0), Op("price.cta", c2, 0)>>,
         ctx |-> c2]

DrawOutro(c, prog) ==
    [ops |-> <<Op("outro.fade", WithAlpha(c, prog), 0)>>,
     ctx |-> WithAlpha(c, AlphaOne)]

\* features[scene.idx]: the caption line, <<>> for undefined
CaptionAt(feats, scene) ==
    IF scene.kind = "image" /\ scene.idx < Len(feats)
    THEN feats[scene.idx + 1] ELSE <<>>

DrawScene(c, scene, prog, nBitmaps, feats) ==
    IF scene.kind = "intro" THEN DrawIntro(c, nBitmaps > 0, prog)
    ELSE IF scene.kind = "image"
    THEN DrawImageScene(c, scene.idx < nBitmaps, Truthy(CaptionAt(feats, scene)),
                        scene.idx, prog)
    ELSE IF scene.kind = "price" THEN DrawPrice(c, prog)
    ELSE DrawOutro(c, prog)

\* drawVignette and drawLetterbox, by style
PostProcess(c, sty) ==
    (IF sty # "minimal" THEN <<Op("vignette", c, 0)>> ELSE <<>>)
    \o (IF sty = "cinematic"
        THEN <<Op("letterbox.top", c, 0), Op("letterbox.bottom", c, 0)>>
        ELSE <<>>)

(***************************************************************************)
(* drawFrame(ctx, tMs) in the closure of one render (bitmaps, total,       *)
(* style, features).  The result says whether the call threw (the scene    *)
(* lookup returned undefined and line 86 dereferenced it), what was        *)
(* painted after clearRect, and the context state left behind.             *)
(***************************************************************************)
DrawFrame(c, tMs, nBitmaps, total, sty, feats) ==
    LET black == <<Op("background", c, 0)>>
        scenes == BuildScenes(nBitmaps)
        time == ClampTime(tMs, total)
    IN  IF Matches(scenes, time) = {}
        THEN [threw |-> TRUE, kind |-> "none", time |-> time, ops |-> black,
              caption |-> <<>>, ctx |-> c]
        ELSE LET scene == scenes[FirstMatch(scenes, time)]
                 prog == Progress(scene, time)
                 c1 == [c EXCEPT !.filter = GradeFilter(sty)]
                 drawn == DrawScene(c1, scene, prog, nBitmaps, feats)
                 post == PostProcess(drawn.ctx, sty)
             IN  [threw |-> FALSE, kind |-> scene.kind, time |-> time,
                  ops |-> black \o drawn.ops \o post,
                  caption |-> CaptionAt(feats, scene),
                  ctx |-> [drawn.ctx EXCEPT !.filter = "none"]]

FreshCtx == [globalAlpha |-> AlphaOne, filter |-> "none"]

(***************************************************************************)
(* The instants at which the model samples a clock against one timeline:  *)
(* every boundary of the scene list built for nBitmaps, the millisecond   *)
(* before it, and the same around the total duration.                     *)
(***************************************************************************)
Instants(nBitmaps, total) ==
    LET scenes == BuildScenes(nBitmaps)
        marks == {scenes[k].end : k \in 1..Len(scenes)} \cup {total}
    IN  {0} \cup marks \cup {m - 1 : m \in marks}

(***************************************************************************)
(* selectMimeType and the host's MediaRecorder.                            *)
(***************************************************************************)
MimeCandidates ==
    <<"video/webm;codecs=vp9,opus", "video/webm;codecs=vp8,opus", "video/webm">>

MimeSet == {MimeCandidates[k] : k \in 1..Len(MimeCandidates)}

Hosts ==
    {h \in [hasRecorder : BOOLEAN, supported : SUBSET MimeSet] :
        ~h.hasRecorder => h.supported = {}}

RECURSIVE SelectFrom(_, _)
SelectFrom(h, k) ==
    IF k > Len(MimeCandidates) THEN "video/webm"
    ELSE IF h.hasRecorder /\ MimeCandidates[k] \in h.supported
    THEN MimeCandidates[k]
    ELSE SelectFrom(h, k + 1)

SelectMimeType(h) == SelectFrom(h, 1)

\* new MediaRecorder(combined, {mimeType}): a ReferenceError without the
\* constructor, a NotSupportedError for a type the host does not support
RecorderConstructs(h, mime) == h.hasRecorder /\ mime \in h.supported

(***************************************************************************)
(* State after the first render and its effects: no assets, the decode     *)
(* effect of the empty list started, the preview loop scheduled.           *)
(***************************************************************************)
IdleRec ==
    [pc |-> "idle", duration |-> 0, nBitmaps |-> 0, sty |-> "cinematic",
     feats |-> <<>>,
     t |-> 0, lastTs |-> 0 - 1, audioEl |-> FALSE, audioTrack |-> FALSE,
     audioPlaying |-> FALSE,
     mime |-> "", recording |-> FALSE, submitted |-> 0, buffer |-> 0,
     chunks |-> <<>>,
     resolved |-> 0, artifact |-> [size |-> 0, type |-> ""]]

NoFrame ==
    [by |-> "none", t |-> 0, nBitmaps |-> 0, total |-> 0, sty |-> "cinematic",
     feats |-> <<>>, first |-> FALSE,
     alphaIn |-> AlphaOne, threw |-> FALSE, kind |-> "none", time |-> 0,
     ops |-> <<>>, caption |-> <<>>]

Init ==
    /\ assets = <<>>
    /\ loaders = <<[files |-> <<>>, cancelled |-> FALSE]>>
    /\ bitmaps = <<>>
    /\ totalDurationMs = ComputeTotal(0, 0)
    /\ style = "cinematic"
    /\ ctx = FreshCtx
    /\ frame = NoFrame
    /\ previewPending = TRUE
    /\ host \in Hosts
    /\ audioFile = FALSE
    /\ rec = IdleRec
    /\ features = DefaultFeatures
    /\ loopFeatures = DefaultFeatures
    /\ handleFeatures = DefaultFeatures
    /\ previewStartRef = "null"
    /\ loopFirst = TRUE
    /\ isRecording = FALSE
    /\ stalePending = 0
    /\ mounted = TRUE

(***************************************************************************)
(* One drawFrame call on the shared canvas by a driver.  While the         *)
(* recorder records, the canvas stream hands the painted frame to it.      *)
(***************************************************************************)
Painted(by, c, tMs, nBitmaps, total, sty, feats, first, r) ==
    [by |-> by, t |-> tMs, nBitmaps |-> nBitmaps, total |-> total, sty |-> sty,
     feats |-> feats, first |-> first,
     alphaIn |-> c.globalAlpha, threw |-> r.threw, kind |-> r.kind,
     time |-> r.time, ops |-> r.ops, caption |-> r.caption]

Submit(r) ==
    IF r.recording
    THEN [r EXCEPT !.submitted = Min(r.submitted + 1, MaxFrames),
                   !.buffer = Min(r.buffer + 1, MaxFrames)]
    ELSE r

(***************************************************************************)
(* Page: the asset dropzone calls setAssets(fs) with a non-empty list.     *)
(* The [assets] effect is cleaned up (its loader is cancelled) and run     *)
(* again; no dependency of the memo or of the preview effect changes.      *)
(***************************************************************************)
\* the cleanup leaving the flag as it is
CancelNone(ls) == ls

CancelAll(ls) == [k \in 1..Len(ls) |-> [ls[k] EXCEPT !.cancelled = TRUE]]

SetAssets(fs) ==
    /\ mounted
    /\ assets' = fs
    /\ loaders' = Append(CancelAll(loaders), [files |-> fs, cancelled |-> FALSE])
    /\ UNCHANGED <<bitmaps, totalDurationMs, style, ctx, frame, previewPending,
                   host, audioFile, rec, features, loopFeatures, handleFeatures,
                   previewStartRef, loopFirst, isRecording,
                   stalePending, mounted>>

RemoveAt(s, i) == [k \in 1..(Len(s) - 1) |-> IF k < i THEN s[k] ELSE s[k + 1]]

(***************************************************************************)
(* The preview effect's cleanup and re-run (a dependency changed): the     *)
(* pending callback is cancelled and a new loop is requested, in the       *)
(* closure of the current render.  previewStartRef is left as it is.  The  *)
(* imperative handle has the same dependencies and is rebuilt too.         *)
(***************************************************************************)
\* the cleanup: if (rafRef.current) cancelAnimationFrame(rafRef.current);
\* the result says whether the callback rafRef.current names is still pending
CancelAnimationFrame(pending) == FALSE

\* rafRef.current = requestAnimationFrame(loop): a callback that was pending
\* under the old value of rafRef.current is no longer named by it
Unnamed(pending, stale) == IF pending THEN stale + 1 ELSE stale

RestartPreview(feats) ==
    /\ stalePending' = Unnamed(CancelAnimationFrame(previewPending), stalePending)
    /\ previewPending' = TRUE
    /\ loopFirst' = TRUE
    /\ loopFeatures' = feats
    /\ handleFeatures' = feats

(***************************************************************************)
(* A decode effect's async function runs to its end: it has decoded its    *)
(* file list and, unless cancelled, calls setBitmaps(imgs).  The render    *)
(* that follows recomputes the memo and restarts the preview effect.       *)
(***************************************************************************)
DecodeFinish(i, fails) ==
    /\ LET l == loaders[i]
           imgs == DecodeAll(l.files, fails)
       IN  /\ loaders' = RemoveAt(loaders, i)
           /\ IF l.cancelled
              THEN UNCHANGED <<bitmaps, totalDurationMs, previewPending,
                               loopFirst, loopFeatures, handleFeatures,
                               stalePending>>
              ELSE /\ bitmaps' = imgs
                   /\ totalDurationMs' =
                          MemoTotal(bitmaps, imgs, assets, totalDurationMs)
                   /\ RestartPreview(features)
    /\ UNCHANGED <<assets, style, ctx, frame, host, audioFile, rec, features,
                   previewStartRef, isRecording, mounted>>

\* Page: the style selector
SetStyle(s) ==
    /\ mounted
    /\ s # style
    /\ style' = s
    /\ RestartPreview(features)
    /\ UNCHANGED <<assets, loaders, bitmaps, totalDurationMs, ctx, frame, host,
                   audioFile, rec, features, previewStartRef, isRecording, mounted>>

\* Page: the music dropzone calls setAudioFile(fs[0]) with a file; audioFile
\* is a dependency of the handle, not of the preview effect
SetAudioFile ==
    /\ mounted
    /\ audioFile' = TRUE
    /\ handleFeatures' = features
    /\ UNCHANGED <<assets, loaders, bitmaps, totalDurationMs, style, ctx, frame,
                   previewPending, host, rec, features, loopFeatures,
                   previewStartRef, loopFirst, isRecording,
                   stalePending, mounted>>

(***************************************************************************)
(* Page: the features textarea's onChange with the new text.  The preview  *)
(* effect and the handle are rebuilt only when features.join("|") differs  *)
(* from the previous render's.                                             *)
(***************************************************************************)
SetFeatures(text) ==
    /\ mounted
    /\ features' = FilterBoolean(SplitLines(text))
    /\ IF FeaturesDep(features') # FeaturesDep(features)
       THEN RestartPreview(features')
       ELSE UNCHANGED <<previewPending, loopFirst, loopFeatures, handleFeatures,
                        stalePending>>
    /\ UNCHANGED <<assets, loaders, bitmaps, totalDurationMs, style, ctx, frame,
                   host, audioFile, rec, previewStartRef, isRecording, mounted>>

(***************************************************************************)
(* The preview loop's frame callback at ts, with d = ts - start once the   *)
(* origin is set: the first callback ever sets the origin (d = 0); then    *)
(* elapsed = d modulo max(totalDurationMs, 1), then drawFrame, then the    *)
(* next callback is requested.  A throw in drawFrame leaves no callback    *)
(* scheduled.                                                              *)
(***************************************************************************)
Elapsed(d, total) == d % Max(total, 1)

PreviewFrame(d) ==
    /\ previewPending
    /\ IF previewStartRef = "null" THEN d = 0 ELSE d > 0
    /\ LET elapsed == Elapsed(d, totalDurationMs)
           r == DrawFrame(ctx, elapsed, Len(bitmaps), totalDurationMs, style,
                          loopFeatures)
       IN  /\ frame' = Painted("preview", ctx, elapsed, Len(bitmaps),
                               totalDurationMs, style, loopFeatures, loopFirst, r)
           /\ ctx' = r.ctx
           /\ previewPending' = ~r.threw
    /\ previewStartRef' = "set"
    /\ loopFirst' = FALSE
    /\ rec' = Submit(rec)
    /\ UNCHANGED <<assets, loaders, bitmaps, totalDurationMs, style, host,
                   audioFile, features, loopFeatures, handleFeatures,
                   isRecording,
                   stalePending, mounted>>

(***************************************************************************)
(* The view is disposed: the cleanups of the decode effect and of the      *)
(* preview effect run.                                                     *)
(***************************************************************************)
Unmount ==
    /\ mounted
    /\ mounted' = FALSE
    /\ loaders' = CancelAll(loaders)
    /\ previewPending' = CancelAnimationFrame(previewPending)
    /\ UNCHANGED <<assets, bitmaps, totalDurationMs, style, ctx, frame, host,
                   audioFile, rec, features, loopFeatures, handleFeatures,
                   previewStartRef, loopFirst, isRecording, stalePending>>

(***************************************************************************)
(* handleGenerate and startRecording up to its first suspension.  The      *)
(* page's button is enabled only with assets present and isRecording       *)
(* false.                                                                  *)
(***************************************************************************)
\* disabled={!hasAssets || isRecording}
TriggerEnabled(hasAssets, recording) == ~(~hasAssets \/ recording)

StartRecording(gotTrack) ==
    /\ mounted
    /\ TriggerEnabled(Len(assets) > 0, isRecording)
    /\ gotTrack => audioFile
    /\ isRecording' = TRUE
    /\ LET r == DrawFrame(ctx, 0, Len(bitmaps), totalDurationMs, style,
                          handleFeatures)
           mime == SelectMimeType(host)
           ok == RecorderConstructs(host, mime)
       IN  /\ frame' = Painted("prime", ctx, 0, Len(bitmaps), totalDurationMs,
                               style, handleFeatures, FALSE, r)
           /\ ctx' = r.ctx
           /\ rec' = [IdleRec EXCEPT
                        !.pc = IF ~ok THEN "rejected"
                               ELSE IF audioFile THEN "playing" ELSE "loop",
                        !.duration = totalDurationMs,
                        !.nBitmaps = Len(bitmaps),
                        !.sty = style,
                        !.feats = handleFeatures,
                        !.audioEl = audioFile,
                        !.audioTrack = gotTrack,
                        !.mime = mime,
                        !.recording = ok]
    /\ UNCHANGED <<assets, loaders, bitmaps, totalDurationMs, style,
                   previewPending, host, audioFile, features, loopFeatures,
                   handleFeatures, previewStartRef, loopFirst,
                   stalePending, mounted>>

\* await audioEl.play() settles, resolved (played) or rejected and caught;
\* the frame-stepped loop starts either way
AudioPlaySettled(played) ==
    /\ rec.pc = "playing"
    /\ rec' = [rec EXCEPT !.pc = "loop", !.audioPlaying = played]
    /\ UNCHANGED <<assets, loaders, bitmaps, totalDurationMs, style, ctx, frame,
                   previewPending, host, audioFile, features, loopFeatures,
                   handleFeatures, previewStartRef, loopFirst, isRecording,
                   stalePending, mounted>>

(***************************************************************************)
(* step(): one callback of the frame-stepped loop at elapsed time t.  It   *)
(* renders the clamped time in the capture's closure; then it requests the *)
(* next callback, or resolves the loop's promise, after which              *)
(* startRecording calls recorder.stop().                                   *)
(***************************************************************************)
\* the clamp written as the preview loop's wrap-around
StepClampWraps(t, duration) == t % Max(duration, 1)

StepClamp(t, duration) == Min(t, duration - 1)

\* the loop test taken against the last in-range time
StepContinuesEarly(t, duration) == t < duration - 1

StepContinues(t, duration) == t < duration

Step(t) ==
    /\ rec.pc = "loop"
    /\ t > rec.t
    /\ LET clamped == StepClamp(t, rec.duration)
           r == DrawFrame(ctx, clamped, rec.nBitmaps, rec.duration, rec.sty,
                          rec.feats)
           r1 == Submit(rec)
       IN  /\ frame' = Painted("capture", ctx, clamped, rec.nBitmaps, rec.duration,
                               rec.sty, rec.feats, FALSE, r)
           /\ ctx' = r.ctx
           /\ rec' = IF r.threw
                     THEN [r1 EXCEPT !.pc = "crashed", !.t = t]
                     ELSE IF StepContinues(t, rec.duration)
                     THEN [r1 EXCEPT !.t = t, !.lastTs = r.time]
                     ELSE [r1 EXCEPT !.pc = "stopping", !.t = t,
                                     !.lastTs = r.time, !.recording = FALSE]
    /\ UNCHANGED <<assets, loaders, bitmaps, totalDurationMs, style,
                   previewPending, host, audioFile, features, loopFeatures,
                   handleFeatures, previewStartRef, loopFirst, isRecording,
                   stalePending, mounted>>

(***************************************************************************)
(* The recorder's stop task: dataavailable with the gathered data, then    *)
(* stop.  ondataavailable keeps a non-empty chunk; onstop resolves the     *)
(* promise with the Blob of the chunks, typed with the chosen mime, and    *)
(* handleGenerate resumes with setIsRecording(false).                      *)
(***************************************************************************)
\* the size test inverted
OnDataAvailableInverted(chunks, size) ==
    IF size = 0 THEN Append(chunks, size) ELSE chunks

OnDataAvailable(chunks, size) == IF size # 0 THEN Append(chunks, size) ELSE chunks

RECURSIVE BlobSize(_)
BlobSize(chunks) ==
    IF chunks = <<>> THEN 0 ELSE Head(chunks) + BlobSize(Tail(chunks))

NewBlob(chunks, mime) == [size |-> BlobSize(chunks), type |-> mime]

RecorderFlush ==
    /\ rec.pc = "stopping"
    /\ LET chunks == OnDataAvailable(rec.chunks, rec.buffer)
       IN  rec' = [rec EXCEPT !.pc = "done", !.buffer = 0, !.chunks = chunks,
                              !.resolved = rec.resolved + 1,
                              !.artifact = NewBlob(chunks, rec.mime)]
    /\ isRecording' = FALSE
    /\ UNCHANGED <<assets, loaders, bitmaps, totalDurationMs, style, ctx, frame,
                   previewPending, host, audioFile, features, loopFeatures,
                   handleFeatures, previewStartRef, loopFirst,
                   stalePending, mounted>>

(***************************************************************************)
(* Specifications.  SpecInputs runs the asset list and its decode effect   *)
(* alone; SpecView adds the style selector and the preview driver;         *)
(* SpecCapture runs the capture driver on every host; SpecText runs the    *)
(* preview driver with the features textarea; SpecStudio runs the preview  *)
(* driver and a capture without music side by side; SpecLifecycle runs    *)
(* the preview driver up to the disposal of the view; Spec runs            *)
(* everything.                                                             *)
(***************************************************************************)
FullHost == [hasRecorder |-> TRUE, supported |-> MimeSet]

Decodes ==
    \E i \in 1..Len(loaders) :
        \E fails \in SUBSET (1..Len(loaders[i].files)) : DecodeFinish(i, fails)

Drops(nFiles, nLoaders) ==
    \E fs \in FileLists(nFiles) : Len(loaders) < nLoaders /\ SetAssets(fs)

Preview ==
    \E d \in Instants(Len(bitmaps), totalDurationMs) : PreviewFrame(d)

Capture ==
    \/ \E gotTrack \in BOOLEAN : StartRecording(gotTrack)
    \/ \E played \in BOOLEAN : AudioPlaySettled(played)
    \/ \E t \in Instants(rec.nBitmaps, rec.duration) : Step(t)
    \/ RecorderFlush

NextInputs ==
    \/ Drops(MaxFiles, MaxInFlight)
    \/ Decodes

NextView ==
    \/ Drops(DriverFiles, DriverInFlight)
    \/ Decodes
    \/ \E s \in Styles : SetStyle(s)
    \/ Preview

NextCapture ==
    \/ Drops(DriverFiles, DriverInFlight)
    \/ Decodes
    \/ SetAudioFile
    \/ Capture

NextText ==
    \/ Drops(TextFiles, DriverInFlight)
    \/ Decodes
    \/ \E text \in Texts : SetFeatures(text)
    \/ Preview

\* a capture with no music set
CaptureSilent ==
    \/ StartRecording(FALSE)
    \/ \E t \in Instants(rec.nBitmaps, rec.duration) : Step(t)
    \/ RecorderFlush

NextStudio ==
    \/ Drops(StudioFiles, DriverInFlight)
    \/ Decodes
    \/ Preview
    \/ CaptureSilent

NextLifecycle ==
    \/ Drops(LifecycleFiles, DriverInFlight)
    \/ Decodes
    \/ \E s \in Styles : SetStyle(s)
    \/ Preview
    \/ Unmount

Next == NextView \/ NextCapture \/ NextText \/ NextStudio \/ NextLifecycle

InitFullHost == Init /\ host = FullHost

SpecInputs == InitFullHost /\ [][NextInputs]_vars

SpecView == InitFullHost /\ [][NextView]_vars

SpecCapture == Init /\ [][NextCapture]_vars

SpecText == InitFullHost /\ [][NextText]_vars

SpecStudio == InitFullHost /\ [][NextStudio]_vars

SpecLifecycle == InitFullHost /\ [][NextLifecycle]_vars

(***************************************************************************)
(* The renderer on its own: drawFrame called with any timestamp, in the    *)
(* closure of a render whose file list has been decoded in full.           *)
(***************************************************************************)
\* the timestamps handed to the renderer: the instants of the timeline, and
\* ones before 0 and beyond the total duration
Timestamps(nBitmaps, total) ==
    Instants(nBitmaps, total) \cup {0 - total, 0 - 1, total + 1, 2 * total}

InitRenderer ==
    /\ \E n \in 0..DriverFiles :
          /\ assets = [k \in 1..n |-> "image/png"]
          /\ bitmaps = [k \in 1..n |-> "bmp"]
          /\ totalDurationMs = ComputeTotal(n, n)
    /\ loaders = <<>>
    /\ style \in Styles
    /\ ctx = FreshCtx
    /\ frame = NoFrame
    /\ previewPending = TRUE
    /\ host = FullHost
    /\ audioFile = FALSE
    /\ rec = IdleRec
    /\ features = DefaultFeatures
    /\ loopFeatures = DefaultFeatures
    /\ handleFeatures = DefaultFeatures
    /\ previewStartRef = "null"
    /\ loopFirst = TRUE
    /\ isRecording = FALSE
    /\ stalePending = 0
    /\ mounted = TRUE

DrawFrameAt(tMs) ==
    /\ LET r == DrawFrame(ctx, tMs, Len(bitmaps), totalDurationMs, style, features)
       IN  /\ frame' = Painted("call", ctx, tMs, Len(bitmaps), totalDurationMs,
                               style, features, FALSE, r)
           /\ ctx' = r.ctx
    /\ UNCHANGED <<assets, loaders, bitmaps, totalDurationMs, style,
                   previewPending, host, audioFile, rec, features, loopFeatures,
                   handleFeatures, previewStartRef, loopFirst, isRecording,
                   stalePending, mounted>>

NextRenderer ==
    \E tMs \in Timestamps(Len(bitmaps), totalDurationMs) : DrawFrameAt(tMs)

SpecRenderer == InitRenderer /\ [][NextRenderer]_vars

Spec == Init /\ [][Next]_vars

(***************************************************************************)
(* Timeline claims.                                                        *)
(***************************************************************************)

\* The count the memo callback works on when it runs after a step
MemoCount == Max(Len(bitmaps'), Len(assets'))

FrameScenes == BuildScenes(frame.nBitmaps)

Contiguous(scenes) ==
    /\ scenes[1].start = 0
    /\ \A k \in 1..Len(scenes) : scenes[k].start < scenes[k].end
    /\ \A k \in 1..(Len(scenes) - 1) : scenes[k].end = scenes[k + 1].start

KindOrder(scenes, n) ==
    /\ Len(scenes) = n + 3
    /\ scenes[1].kind = "intro"
    /\ \A k \in 1..n : scenes[k + 1].kind = "image" /\ scenes[k + 1].idx = k - 1
    /\ scenes[n + 2].kind = "price"
    /\ scenes[n + 3].kind = "outro"

\* C2: the scene list the renderer builds is contiguous and non-overlapping,
\* starts at 0, ends exactly at totalDurationMs, is in kind order intro,
\* image*, price, outro and has exactly N image scenes with assetIndex
\* 0..N-1 ascending.  Stated for frames with at least one decoded image (the
\* empty timeline is C4's case).
C2_ScenesPartitionTimeline ==
    (frame.by # "none" /\ frame.nBitmaps >= 1) =>
        /\ Contiguous(FrameScenes)
        /\ KindOrder(FrameScenes, frame.nBitmaps)
        /\ FrameScenes[Len(FrameScenes)].end = frame.total

\* C3: rendering never fails: for every timestamp a driver passes, the
\* clamped time lies inside exactly one scene, so a scene is found and drawn.
C3_RenderNeverFails ==
    frame.by # "none" =>
        /\ Cardinality(Matches(FrameScenes, ClampTime(frame.t, frame.total))) = 1
        /\ ~frame.threw

\* C4: with zero assets the timeline is intro-only: totalDurationMs is 1500
\* and the scene list is the single intro scene [0, 1500), with no price or
\* outro scene.
C4_EmptyTimelineIntroOnly ==
    (frame.by # "none" /\ frame.nBitmaps = 0 /\ Len(assets) = 0) =>
        /\ frame.total = 1500
        /\ Len(FrameScenes) = 1
        /\ FrameScenes[1].kind = "intro"
        /\ FrameScenes[1].start = 0
        /\ FrameScenes[1].end = 1500

\* What the same call paints on a context no earlier call has touched
FreshFrame ==
    DrawFrame(FreshCtx, frame.t, frame.nBitmaps, frame.total, frame.sty,
              frame.feats)

\* C5: the renderer is pure: a call paints what the same call (timestamp,
\* timeline, assets, text, style) paints on an untouched context, whatever
\* calls preceded it; it starts from an opaque black fill, and no globalAlpha
\* or filter left by an earlier call reaches it.
C5_RendererPure ==
    (frame.by # "none" /\ ~frame.threw) =>
        /\ frame.ops = FreshFrame.ops
        /\ frame.ops[1].op = "background"
        /\ frame.ops[1].alpha = AlphaOne
        /\ frame.ops[1].filter = "none"

(***************************************************************************)
(* Capture claims.                                                         *)
(***************************************************************************)

\* recorder.stop() has been called in the current capture
StopCalled == rec.pc \in {"stopping", "done"}

\* C6: in every capture the frame at time totalDurationMs - 1 is rendered
\* before the encoder is told to stop, and the encoder is told to stop only
\* after the elapsed capture time has reached totalDurationMs.
C6_FinalFrameBeforeStop ==
    StopCalled =>
        /\ rec.lastTs = rec.duration - 1
        /\ rec.t >= rec.duration

\* a capture of a timeline with images has rendered its last frame and
\* stopped the encoder
C6_Witness ==
    /\ rec.pc = "stopping"
    /\ rec.nBitmaps >= 1
    /\ rec.duration > introMs
    /\ rec.lastTs = rec.duration - 1

\* A step of the frame-stepped loop that rendered a frame after an earlier one
RenderedStep ==
    /\ rec.pc = "loop"
    /\ rec'.pc \in {"loop", "stopping"}
    /\ rec'.t # rec.t
    /\ rec.lastTs >= 0

\* C7 as stated: within one capture the timestamps of the frames rendered
\* by the frame-stepped loop are strictly increasing.
C7_StrictlyIncreasing ==
    [][RenderedStep => rec'.lastTs > rec.lastTs]_vars

\* C7 amended: the timestamps never go backwards, and two frames of one
\* capture have the same timestamp only when it is the last in-range time
\* totalDurationMs - 1.
C7_IncreasingUntilLastFrame ==
    [][RenderedStep =>
          /\ rec'.lastTs >= rec.lastTs
          /\ rec'.lastTs = rec.lastTs => rec.lastTs = rec.duration - 1]_vars

\* the loop has rendered the last in-range frame and has requested another
\* callback
C7_Witness ==
    /\ rec.pc = "loop"
    /\ rec.t = rec.duration - 1
    /\ rec.lastTs = rec.duration - 1

CaptureProgress ==
    \/ \E played \in BOOLEAN : AudioPlaySettled(played)
    \/ \E t \in Instants(rec.nBitmaps, rec.duration) : Step(t)
    \/ RecorderFlush

\* C9: a capture always runs to completion once started: until its promise
\* is resolved, a started capture always has its next step pending.  Stated
\* for hosts whose recorder accepts the selected encoding (the others are
\* C10's case).
C9_CaptureRunsToCompletion ==
    RecorderConstructs(host, SelectMimeType(host)) =>
        (rec.pc \in {"idle", "done"} \/ ENABLED CaptureProgress)

\* The first entry of the preference list the host reports as supported, the
\* last entry when there is none
FirstSupported(h) ==
    LET sup == {k \in 1..Len(MimeCandidates) :
                    h.hasRecorder /\ MimeCandidates[k] \in h.supported}
    IN  IF sup = {} THEN MimeCandidates[Len(MimeCandidates)]
        ELSE MimeCandidates[CHOOSE k \in sup : \A j \in sup : k <= j]

\* C10: encoding selection returns the first supported entry of the
\* preference list, and the final fallback when the host supports none or
\* has no recorder; the capture then still goes on to resolve with it.
C10_FallbackStillRecords ==
    rec.pc # "idle" =>
        /\ rec.mime = FirstSupported(host)
        /\ rec.pc # "rejected"

\* The current capture has an audio asset whose track could not be opened or
\* whose playback could not be started
AudioFailed ==
    /\ rec.audioEl
    /\ \/ ~rec.audioTrack
       \/ rec.pc \in {"loop", "crashed", "stopping", "done"} /\ ~rec.audioPlaying

\* C11: audio failures are non-fatal: a capture whose audio track could not
\* be opened or whose playback could not be started is not rejected, has
\* started the encoder, and until it has resolved with its artifact it
\* always has its next step pending (the frame loop, then the encoder's
\* stop); its stream carries an audio track only if one was obtained.
C11_AudioFailureNonFatal ==
    (rec.pc # "idle" /\ AudioFailed) =>
        /\ rec.pc # "rejected"
        /\ rec.audioTrack => rec.audioEl
        /\ rec.pc # "done" => rec.recording \/ rec.pc = "stopping"
        /\ rec.pc = "done" \/ ENABLED CaptureProgress

(***************************************************************************)
(* Asset list claims.                                                      *)
(***************************************************************************)

\* The decode that a step completed and that replaced the bitmaps: an
\* uncancelled loader, removed by the step, whose result is the new list
ReplacedBy(i) ==
    /\ ~loaders[i].cancelled
    /\ loaders' = RemoveAt(loaders, i)
    /\ loaders[i].files = assets
    /\ \E fails \in SUBSET (1..Len(loaders[i].files)) :
           bitmaps' = DecodeAll(loaders[i].files, fails)

\* C12: stale decodes are discarded: the only decode in flight that is not
\* cancelled is the one started last, for the current file list; the bitmap
\* list changes only when that decode finishes, and then to its whole
\* result; a step that completes a cancelled decode leaves the list alone.
C12_StaleDecodesDiscarded ==
    /\ [](\A k \in 1..Len(loaders) :
             ~loaders[k].cancelled => k = Len(loaders) /\ loaders[k].files = assets)
    /\ [][/\ bitmaps' # bitmaps => \E i \in 1..Len(loaders) : ReplacedBy(i)
          /\ (\E i \in 1..Len(loaders) :
                  loaders[i].cancelled /\ loaders' = RemoveAt(loaders, i))
              => bitmaps' = bitmaps]_vars

\* the decode of the current one-image list has replaced the bitmaps while
\* the cancelled decode of an earlier three-image list is still in flight
C12_Witness ==
    /\ Len(assets) = 1
    /\ Len(bitmaps) = 1
    /\ Len(loaders) = 1
    /\ loaders[1].cancelled
    /\ loaders[1].files = <<"image/png", "image/png", "image/png">>

(***************************************************************************)
(* Preview claims.                                                         *)
(***************************************************************************)

\* The caption the lines `feats` give for the scene of the frame f
CaptionFor(f, feats) ==
    IF f.threw THEN <<>>
    ELSE LET scenes == BuildScenes(f.nBitmaps)
         IN  CaptionAt(feats, scenes[FirstMatch(scenes, f.time)])

\* C13: after any change of an input (timeline, text, style) the preview
\* loop is torn down and started afresh: every preview frame is rendered
\* with the current bitmaps, duration, style and captions, never with an
\* outdated value.
C13_NoOutdatedPreviewFrame ==
    [][(frame'.by = "preview" /\ frame' # frame) =>
          /\ frame'.nBitmaps = Len(bitmaps')
          /\ frame'.total = totalDurationMs'
          /\ frame'.sty = style'
          /\ frame'.caption = CaptionFor(frame', features')]_vars

\* C14: the drawing surface is never written by both drivers during a
\* capture: while the encoder records, the frame on the surface is one
\* rendered by the capture driver (its priming frame or a frame of its
\* loop), never one rendered by the preview driver.
C14_SurfaceOwnedByCapture ==
    rec.recording => frame.by \in {"prime", "capture"}

(***************************************************************************)
(* Page claims.                                                            *)
(***************************************************************************)

\* pressing the generate button starts a capture
TriggerFires == \E gotTrack \in BOOLEAN : StartRecording(gotTrack)

\* C15: at most one capture is in flight: while a capture's promise is
\* pending the generate trigger cannot start another one, and once a
\* capture has ended (its promise is settled) the trigger is enabled again
\* whenever assets are present.
C15_OneCaptureInFlight ==
    /\ rec.pc \in {"playing", "loop", "stopping", "crashed"} => ~ENABLED TriggerFires
    /\ (rec.pc \in {"done", "rejected"} /\ Len(assets) > 0) => ENABLED TriggerFires

\* C16: totalDurationMs is a function of the current asset count only: once
\* the decode of the current file list has finished it is the value the
\* duration formula gives for the current lists, whatever earlier lists led
\* there; and a change of style leaves it and every scene boundary as they
\* are.
C16_DurationFunctionOfCount ==
    /\ [](loaders = <<>> =>
             totalDurationMs = ComputeTotal(Len(bitmaps), Len(assets)))
    /\ [][style' # style =>
             /\ totalDurationMs' = totalDurationMs
             /\ BuildScenes(Len(bitmaps')) = BuildScenes(Len(bitmaps))]_vars

(***************************************************************************)
(* Renderer claims.                                                        *)
(***************************************************************************)

\* the frame holds the operation `name`
Has(ops, name) == \E k \in 1..Len(ops) : ops[k].op = name

\* the frame holds the operation `name`, painted at full globalAlpha
HasOpaque(ops, name) ==
    \E k \in 1..Len(ops) : ops[k].op = name /\ ops[k].alpha = AlphaOne

\* the filter under which the scene and its post-processing were painted
Graded(ops) == \A k \in 2..Len(ops) : ops[k].filter = "grade"

\* C17: post-processing depends on style alone, for every scene kind and
\* timestamp: minimal gives no colour grade, no vignette and no letterbox
\* bars; modern gives the colour grade and the vignette, no bars; cinematic
\* gives the colour grade, the vignette and the bars.  The vignette and the
\* bars are painted as drawVignette and drawLetterbox define them, at full
\* globalAlpha.
C17_PostProcessingByStyle ==
    (frame.by # "none" /\ ~frame.threw) =>
        /\ frame.sty = "minimal" =>
              /\ \A k \in 1..Len(frame.ops) : frame.ops[k].filter = "none"
              /\ ~Has(frame.ops, "vignette")
              /\ ~Has(frame.ops, "letterbox.top")
              /\ ~Has(frame.ops, "letterbox.bottom")
        /\ frame.sty = "modern" =>
              /\ Graded(frame.ops)
              /\ HasOpaque(frame.ops, "vignette")
              /\ ~Has(frame.ops, "letterbox.top")
              /\ ~Has(frame.ops, "letterbox.bottom")
        /\ frame.sty = "cinematic" =>
              /\ Graded(frame.ops)
              /\ HasOpaque(frame.ops, "vignette")
              /\ HasOpaque(frame.ops, "letterbox.top")
              /\ HasOpaque(frame.ops, "letterbox.bottom")

\* the local progress of the last frame in its scene, in thousandths
FrameProgress ==
    LET scenes == BuildScenes(frame.nBitmaps)
    IN  Progress(scenes[FirstMatch(scenes, frame.time)], frame.time)

\* C18: for every timestamp given to the renderer, negative ones and ones
\* at or beyond totalDurationMs included, the time used for the scene lookup
\* lies in [0, totalDurationMs - 1], a scene is found, and the local
\* progress computed for it lies in [0, 1).
C18_ClampedTimeAndProgress ==
    frame.by # "none" =>
        /\ frame.time >= 0
        /\ frame.time <= frame.total - 1
        /\ ~frame.threw
        /\ FrameProgress >= 0
        /\ FrameProgress < AlphaOne

\* C19: the preview loops for ever: every preview callback renders the
\* frame at an elapsed time in [0, totalDurationMs) and schedules the next
\* callback, so in every reachable state a preview callback is pending and
\* can run.
C19_PreviewKeepsLooping ==
    /\ frame.by = "preview" => frame.t >= 0 /\ frame.t < frame.total
    /\ previewPending
    /\ ENABLED Preview

\* C20: every freshly started preview loop, one started after a teardown
\* included, records its origin on its own first callback: the first frame
\* a loop renders is the frame at elapsed 0.
C20_FreshLoopStartsAtZero ==
    (frame.by = "preview" /\ frame.first) => frame.t = 0

\* C21: at most one preview loop is live: no pending preview callback is
\* left unnamed by rafRef.current (so no torn-down loop's callback can run
\* again), exactly one preview callback is pending while the view is
\* mounted, and none is pending after the view is disposed.
C21_OnePreviewLoopLive ==
    /\ stalePending = 0
    /\ mounted => previewPending
    /\ ~mounted => ~previewPending

====
